---- MODULE Spec2Model ----
(***************************************************************************)
(* Model of src/agent/client.py: a straight-line script that sets the      *)
(* bearer-token environment variable, constructs a bedrock-runtime client, *)
(* sends one converse request and prints the first text block of the       *)
(* response.  The SDK (boto3) is the environment: client construction and  *)
(* the converse call either succeed or raise, and the response is whatever *)
(* parsed JSON-like value the collaborator returns.                        *)
(*                                                                         *)
(* Python values are records of one shape (kind, keys, items, chars, int)  *)
(* so that subscripting can be modelled with Python's own failure modes    *)
(* (KeyError, IndexError, TypeError).  A str is a sequence of one-character*)
(* strings, and standard output is the sequence of characters written.     *)
(***************************************************************************)
EXTENDS Integers, Sequences, FiniteSets, TLC

\* ---------------------------------------------------------------- bounds
MaxLen == 2      \* longest text string the collaborator returns
MaxInt == 10     \* largest integer the collaborator puts in a text field
MaxRuns == 2     \* runs of the script body in one process (SpecRerun)

\* ------------------------------------------------------- program literals
TokenVar == "AWS_BEARER_TOKEN_BEDROCK"
TokenLiteral == "${api-key}"
ServiceName == "bedrock-runtime"
RegionName == "us-east-1"
ModelId == "us.anthropic.claude-3-5-haiku-20241022-v1:0"
Messages == << [role |-> "user",
                content |-> << [text |-> "Hello! Can you tell me about Amazon Bedrock?"] >>] >>

\* ------------------------------------------------------------ Python values
PyNone == [kind |-> "none", keys |-> <<>>, items |-> <<>>, chars |-> <<>>, int |-> 0]
PyInt(n) == [kind |-> "int", keys |-> <<>>, items |-> <<>>, chars |-> <<>>, int |-> n]
PyString(cs) == [kind |-> "str", keys |-> <<>>, items |-> <<>>, chars |-> cs, int |-> 0]
PyList(xs) == [kind |-> "list", keys |-> <<>>, items |-> xs, chars |-> <<>>, int |-> 0]
PyDict(ks, xs) == [kind |-> "dict", keys |-> ks, items |-> xs, chars |-> <<>>, int |-> 0]

\* Outcome of evaluating an expression: a value, or the exception raised.
Value(v) == [ok |-> TRUE, val |-> v, exc |-> ""]
Raises(e) == [ok |-> FALSE, val |-> PyNone, exc |-> e]

HasKey(d, k) == \E i \in 1..Len(d.keys) : d.keys[i] = k
KeyIndex(d, k) == CHOOSE i \in 1..Len(d.keys) : d.keys[i] = k

\* variant: v.get(k), which yields None for a missing key
GetKeyDefault(v, k) ==
    IF v.kind = "dict"
    THEN IF HasKey(v, k) THEN Value(v.items[KeyIndex(v, k)]) ELSE Value(PyNone)
    ELSE Raises("TypeError")

\* v[k] for a str key k
GetKey(v, k) ==
    IF v.kind = "dict"
    THEN IF HasKey(v, k) THEN Value(v.items[KeyIndex(v, k)]) ELSE Raises("KeyError")
    ELSE Raises("TypeError")

\* variant: the index counted from the end, v[-1 - i]
GetIdxFromEnd(v, i) ==
    CASE v.kind = "list" ->
            IF i < Len(v.items) THEN Value(v.items[Len(v.items) - i]) ELSE Raises("IndexError")
      [] v.kind = "str" ->
            IF i < Len(v.chars) THEN Value(PyString(<<v.chars[Len(v.chars) - i]>>)) ELSE Raises("IndexError")
      [] v.kind = "dict" -> Raises("KeyError")
      [] OTHER -> Raises("TypeError")

\* v[i] for an int index i >= 0
GetIdx(v, i) ==
    CASE v.kind = "list" ->
            IF i < Len(v.items) THEN Value(v.items[i + 1]) ELSE Raises("IndexError")
      [] v.kind = "str" ->
            IF i < Len(v.chars) THEN Value(PyString(<<v.chars[i + 1]>>)) ELSE Raises("IndexError")
      [] v.kind = "dict" -> Raises("KeyError")
      [] OTHER -> Raises("TypeError")

\* response['output']['message']['content'][0]['text'], evaluated left to right
ExtractText(r) ==
    LET a == GetKey(r, "output")
        b == IF a.ok THEN GetKey(a.val, "message") ELSE a
        c == IF b.ok THEN GetKey(b.val, "content") ELSE b
        d == IF c.ok THEN GetIdx(c.val, 0) ELSE c
        e == IF d.ok THEN GetKey(d.val, "text") ELSE d
    IN  e

Digit(n) == <<"0", "1", "2", "3", "4", "5", "6", "7", "8", "9">>[n + 1]

RECURSIVE Decimal(_)
Decimal(n) == IF n < 10 THEN <<Digit(n)>> ELSE Decimal(n \div 10) \o <<Digit(n % 10)>>

\* str(v), as print applies it to its argument.  Containers are modelled
\* only when empty (their repr is then "{}" or "[]").
PyStr(v) ==
    CASE v.kind = "str" -> v.chars
      [] v.kind = "int" -> IF v.int < 0 THEN <<"-">> \o Decimal(-v.int) ELSE Decimal(v.int)
      [] v.kind = "none" -> <<"N", "o", "n", "e">>
      [] v.kind = "dict" /\ v.keys = <<>> -> <<"{", "}">>
      [] v.kind = "list" /\ v.items = <<>> -> <<"[", "]">>

\* variant: a print that ends the line twice
PrintOutputBlankLine(v) == PyStr(v) \o <<"\n", "\n">>

\* what print(v) writes to sys.stdout: str(v) and the default end="\n"
PrintOutput(v) == PyStr(v) \o <<"\n">>

\* ------------------------------------------------- the collaborator's inputs
Chars == {"a", "\n"}
Strings == UNION {[1..k -> Chars] : k \in 0..MaxLen}

\* values a response may carry in the text field of its first content block
Texts ==
    {PyString(s) : s \in Strings}
        \cup {PyInt(n) : n \in -1..MaxInt}
        \cup {PyNone, PyDict(<<>>, <<>>), PyList(<<>>)}

Block(t) == PyDict(<<"text">>, <<t>>)
Wrap(content) ==
    PyDict(<<"output">>, << PyDict(<<"message">>, << PyDict(<<"content">>, <<content>>) >>) >>)

\* the smallest response with the path, and one shaped like the service's
\* (sibling keys, a role, a second content block, a text that is a str)
MinimalResponse(t) == Wrap(PyList(<<Block(t)>>))
FullResponse(t) ==
    PyDict(<<"ResponseMetadata", "output", "stopReason">>,
           << PyDict(<<>>, <<>>),
              PyDict(<<"message">>,
                     << PyDict(<<"role", "content">>,
                               << PyString(<<"a">>),
                                  PyList(<<Block(t), Block(PyString(<<"a">>))>>) >>) >>),
              PyString(<<"a">>) >>)

WellFormed ==
    {MinimalResponse(t) : t \in Texts} \cup {FullResponse(PyString(s)) : s \in Strings}

\* responses in which some element of the path is absent or of the wrong type
Malformed ==
    { PyNone,
      PyDict(<<>>, <<>>),
      PyDict(<<"ResponseMetadata">>, <<PyDict(<<>>, <<>>)>>),
      PyDict(<<"output">>, <<PyNone>>),
      PyDict(<<"output">>, <<PyDict(<<>>, <<>>)>>),
      PyDict(<<"output">>, <<PyDict(<<"message">>, <<PyDict(<<"role">>, <<PyString(<<"a">>)>>)>>)>>),
      PyDict(<<"output">>, <<PyDict(<<"message">>, <<PyList(<<>>)>>)>>),
      Wrap(PyList(<<>>)),
      Wrap(PyString(<<>>)),
      Wrap(PyString(<<"a">>)),
      Wrap(PyNone),
      Wrap(Block(PyString(<<"a">>))),
      Wrap(PyList(<<PyDict(<<"toolUse">>, <<PyDict(<<>>, <<>>)>>)>>)),
      Wrap(PyList(<<PyDict(<<"toolUse">>, <<PyDict(<<>>, <<>>)>>), Block(PyString(<<"a">>))>>)),
      Wrap(PyList(<<PyNone>>)),
      Wrap(PyList(<<PyList(<<Block(PyString(<<"a">>))>>)>>)) }

Responses == WellFormed \cup Malformed

\* environments the process may start in
OtherVar == "AWS_REGION"
InitialEnvs ==
    { e \in UNION {[D -> {"", "old-token", "us-west-2", TokenLiteral}] : D \in SUBSET {TokenVar, OtherVar}} :
        /\ (OtherVar \in DOMAIN e => e[OtherVar] = "us-west-2")
        /\ (TokenVar \in DOMAIN e => e[TokenVar] # "us-west-2") }

\* --------------------------------------------------------------------- state
VARIABLES
    pc,         \* the statement about to run
    env,        \* os.environ: a mapping from the names that are set
    client,     \* the module-level name client
    model_id,   \* the module-level name model_id
    messages,   \* the module-level name messages
    response,   \* the module-level name response
    stdout,     \* characters written to standard output
    exit_code,  \* the process's exit status, NoExit while it runs
    exc,        \* the unhandled exception, "" if none
    requests,   \* history: keyword arguments of every client.converse call
    served,     \* history: every response the collaborator returned
    trace,      \* history: the statements that completed, in order
    env0,       \* history: the environment the process started with
    runs        \* how many times the body has been entered

vars == <<pc, env, client, model_id, messages, response, stdout, exit_code, exc,
          requests, served, trace, env0, runs>>

NoExit == -1
NoClient == [service_name |-> "", region_name |-> ""]
Unbound == ""

Init ==
    /\ pc = "import"
    /\ env \in InitialEnvs
    /\ env0 = env
    /\ client = NoClient
    /\ model_id = Unbound
    /\ messages = <<>>
    /\ response = PyNone
    /\ stdout = <<>>
    /\ exit_code = NoExit
    /\ exc = ""
    /\ requests = <<>>
    /\ served = <<>>
    /\ trace = <<>>
    /\ runs = 1

\* variant: the exception is caught and the script ends normally
UnhandledSwallowed(e) ==
    /\ pc' = "done"
    /\ exc' = ""
    /\ exit_code' = 0

\* An exception nothing catches: the interpreter prints the traceback to
\* standard error and exits with status 1.
Unhandled(e) ==
    /\ pc' = "failed"
    /\ exc' = e
    /\ exit_code' = 1

Completed(step, next) ==
    /\ pc' = next
    /\ trace' = Append(trace, step)
    /\ UNCHANGED <<exc, exit_code>>

\* lines 1-2: import boto3, os
Import ==
    /\ pc = "import"
    /\ \E found \in BOOLEAN :
          IF found THEN Completed("import", "setenv")
                   ELSE Unhandled("ModuleNotFoundError") /\ UNCHANGED trace
    /\ UNCHANGED <<env, client, model_id, messages, response, stdout, requests, served, env0, runs>>

\* variant: os.environ.setdefault(name, value), which keeps a value already set
SetDefault(e, name, value) ==
    [n \in DOMAIN e \cup {name} |-> IF n \in DOMAIN e THEN e[n] ELSE value]

\* os.environ[name] = value
SetItem(e, name, value) ==
    [n \in DOMAIN e \cup {name} |-> IF n = name THEN value ELSE e[n]]

\* line 5
SetEnv ==
    /\ pc = "setenv"
    /\ env' = SetItem(env, TokenVar, TokenLiteral)
    /\ Completed("setenv", "client")
    /\ UNCHANGED <<client, model_id, messages, response, stdout, requests, served, env0, runs>>

\* variant: the client is constructed before the credential is set
CreateClientFirst ==
    /\ pc = "setenv"
    /\ \E ok \in BOOLEAN :
          IF ok THEN /\ client' = [service_name |-> ServiceName, region_name |-> RegionName]
                     /\ Completed("client", "define")
                ELSE /\ Unhandled("BotoCoreError")
                     /\ UNCHANGED <<client, trace>>
    /\ UNCHANGED <<env, model_id, messages, response, stdout, requests, served, env0, runs>>

\* lines 8-11: boto3.client(...) returns a client or raises
CreateClient ==
    /\ pc = "client"
    /\ \E ok \in BOOLEAN :
          IF ok THEN /\ client' = [service_name |-> ServiceName, region_name |-> RegionName]
                     /\ Completed("client", "define")
                ELSE /\ Unhandled("BotoCoreError")
                     /\ UNCHANGED <<client, trace>>
    /\ UNCHANGED <<env, model_id, messages, response, stdout, requests, served, env0, runs>>

\* lines 14-15
DefineRequest ==
    /\ pc = "define"
    /\ model_id' = ModelId
    /\ messages' = Messages
    /\ Completed("define", "call")
    /\ UNCHANGED <<env, client, response, stdout, requests, served, env0, runs>>

\* variant: the model is taken from the environment when that names one
ConverseArgsFromEnv ==
    [modelId |-> IF OtherVar \in DOMAIN env THEN env[OtherVar] ELSE model_id,
     messages |-> messages]

\* the keyword arguments of the call on lines 18-21
ConverseArgs == [modelId |-> model_id, messages |-> messages]

\* lines 18-21, entering the call: the request is handed to the client and
\* the process blocks inside client.converse
CallConverse ==
    /\ pc = "call"
    /\ requests' = Append(requests, ConverseArgs)
    /\ Completed("request", "in_converse")
    /\ UNCHANGED <<env, client, model_id, messages, response, stdout, served, env0, runs>>

\* variant: a response already held is kept instead of the one returned
ConverseReturnsCached ==
    /\ pc = "in_converse"
    /\ \E r \in Responses :
          /\ served' = Append(served, r)
          /\ response' = IF response # PyNone THEN response ELSE r
    /\ Completed("response", "print")
    /\ UNCHANGED <<env, client, model_id, messages, stdout, requests, env0, runs>>

\* lines 18-21, leaving the call: it returns a response, which is bound to
\* response, or it raises
ConverseReturns ==
    /\ pc = "in_converse"
    /\ \E r \in Responses :
          /\ served' = Append(served, r)
          /\ response' = r
    /\ Completed("response", "print")
    /\ UNCHANGED <<env, client, model_id, messages, stdout, requests, env0, runs>>

\* variant: a failed call is tried again (twice at most)
ConverseRaisesRetry ==
    /\ pc = "in_converse"
    /\ IF Len(requests) < 3
       THEN pc' = "call" /\ UNCHANGED <<exc, exit_code>>
       ELSE Unhandled("ClientError")
    /\ UNCHANGED <<env, client, model_id, messages, response, stdout, requests, served, trace, env0, runs>>

ConverseRaises ==
    /\ pc = "in_converse"
    /\ Unhandled("ClientError")
    /\ UNCHANGED <<env, client, model_id, messages, response, stdout, requests, served, trace, env0, runs>>

\* line 24: the argument is evaluated first; print runs only if that
\* evaluation raised nothing
PrintResponse ==
    /\ pc = "print"
    /\ LET text == ExtractText(response)
       IN  IF text.ok
           THEN /\ stdout' = stdout \o PrintOutput(text.val)
                /\ Completed("print", "end")
           ELSE /\ Unhandled(text.exc)
                /\ UNCHANGED <<stdout, trace>>
    /\ UNCHANGED <<env, client, model_id, messages, response, requests, served, env0, runs>>

\* variant: the interpreter never gets to exit
ExitHangs ==
    /\ pc = "end"
    /\ UNCHANGED vars

\* end of file: the interpreter exits with status 0
Exit ==
    /\ pc = "end"
    /\ pc' = "done"
    /\ exit_code' = 0
    /\ UNCHANGED <<env, client, model_id, messages, response, stdout, exc, requests, served, trace, env0, runs>>

Next ==
    \/ Import
    \/ SetEnv
    \/ CreateClient
    \/ DefineRequest
    \/ CallConverse
    \/ ConverseReturns
    \/ ConverseRaises
    \/ PrintResponse
    \/ Exit

Spec == Init /\ [][Next]_vars

\* The body run again in the same process (the file executed a second time,
\* or its body wrapped in a function and called again).  A second run starts
\* only after the first ran to its end: an unhandled exception has already
\* ended the process.  Module-level names keep their old bindings until the
\* body rebinds them; imports are not repeated.
Rerun ==
    /\ pc = "end"
    /\ runs < MaxRuns
    /\ runs' = runs + 1
    /\ pc' = "setenv"
    /\ UNCHANGED <<env, client, model_id, messages, response, stdout, exit_code, exc,
                   requests, served, trace, env0>>

NextRerun == Next \/ Rerun

SpecRerun == Init /\ [][NextRerun]_vars

\* The statements of the script run one after another without anything to
\* wait for, except inside client.converse, whose return depends on the
\* remote service: only the local steps are fair.
LocalStep ==
    \/ Import
    \/ SetEnv
    \/ CreateClient
    \/ DefineRequest
    \/ CallConverse
    \/ PrintResponse
    \/ Exit

SpecLive == Init /\ [][Next]_vars /\ WF_vars(LocalStep)

TypeOK ==
    /\ pc \in {"import", "setenv", "client", "define", "call", "in_converse", "print", "end", "done", "failed"}
    /\ exit_code \in {NoExit, 0, 1}
    /\ runs \in 1..MaxRuns
    /\ response \in Responses \cup {PyNone}
    /\ \A i \in 1..Len(served) : served[i] \in Responses

\* ------------------------------------------------------------------- claims
Order == <<"import", "setenv", "client", "define", "request", "response", "print">>

IsPrefix(a, b) == Len(a) <= Len(b) /\ \A i \in 1..Len(a) : a[i] = b[i]

\* the text a well-formed response was built around
Carries(r, t) ==
    \/ r = MinimalResponse(t)
    \/ t.kind = "str" /\ r = FullResponse(t)

RECURSIVE Newlines(_)
Newlines(cs) ==
    IF cs = <<>> THEN 0 ELSE (IF Head(cs) = "\n" THEN 1 ELSE 0) + Newlines(Tail(cs))

EnvSet == TokenVar \in DOMAIN env /\ env[TokenVar] = TokenLiteral

\* C1: for every response that has output.message.content[0].text, the run
\* does not fail, writes nothing before the print statement, and once that
\* statement has run standard output is exactly str of that text followed by
\* one newline; the process exits with status 0.
C1_PrintsText ==
    \A t \in Texts :
        (Len(served) = 1 /\ Carries(served[1], t)) =>
            /\ pc \in {"print", "end", "done"}
            /\ pc = "print" => stdout = <<>>
            /\ pc \in {"end", "done"} => stdout = PyStr(t) \o <<"\n">>
            /\ pc = "done" => exit_code = 0

C1_Witness ==
    /\ pc = "done"
    /\ exit_code = 0
    /\ served = <<FullResponse(PyString(<<"a", "a">>))>>
    /\ stdout = <<"a", "a", "\n">>

\* C2: a response that lacks any element of the path makes the run end with
\* an unhandled KeyError, IndexError or TypeError and exit status 1, with
\* nothing written to standard output; it never ends with status 0.
C2_MissingPathFails ==
    (Len(served) = 1 /\ served[1] \in Malformed) =>
        /\ pc \in {"print", "failed"}
        /\ stdout = <<>>
        /\ exit_code # 0
        /\ pc = "failed" => exit_code = 1 /\ exc \in {"KeyError", "IndexError", "TypeError"}

C2_Witness ==
    /\ pc = "failed"
    /\ served = <<Wrap(PyList(<<PyDict(<<"toolUse">>, <<PyDict(<<>>, <<>>)>>)>>))>>
    /\ exc = "KeyError"
    /\ exit_code = 1

\* C3: the statements complete in the fixed order setup, client, request,
\* response, print: a client exists only with the variable already holding
\* the literal, a request only with a client, and output only after a
\* response was returned.
C3_Order ==
    /\ IsPrefix(trace, Order)
    /\ client # NoClient => EnvSet
    /\ requests # <<>> => client # NoClient /\ EnvSet
    /\ stdout # <<>> => served # <<>>

C3_Witness ==
    /\ trace = Order
    /\ stdout # <<>>
    /\ TokenVar \notin DOMAIN env0

\* C4: every converse request carries the fixed model identifier and exactly
\* one user message with the literal greeting, whatever the environment, the
\* run or the earlier responses.
C4_FixedRequest ==
    \A i \in 1..Len(requests) :
        /\ requests[i].modelId = "us.anthropic.claude-3-5-haiku-20241022-v1:0"
        /\ Len(requests[i].messages) = 1
        /\ requests[i].messages[1].role = "user"
        /\ requests[i].messages[1].content
              = << [text |-> "Hello! Can you tell me about Amazon Bedrock?"] >>

C4_Witness ==
    /\ Len(requests) = 2
    /\ OtherVar \in DOMAIN env
    /\ served # <<>>
    /\ served[1] = MinimalResponse(PyInt(-1))

\* C5: a run sends at most one request; when it has ended, it has sent
\* exactly one if the client was constructed and none otherwise.
C5_AtMostOnce ==
    /\ Len(requests) <= 1
    /\ pc \in {"end", "done", "failed"} => (Len(requests) = 1 <=> client # NoClient)

C5_Witness ==
    /\ pc = "failed"
    /\ exc = "ClientError"
    /\ Len(requests) = 1

\* What C6 says of a single state: a failure at any step ends the process there with status 1 and an
\* unhandled exception: the statements completed are a strict prefix of the
\* script, nothing has been printed, no request was made without a client,
\* nothing happens afterwards, and status 0 means that every step completed.
C6_State ==
    /\ exit_code = 0 <=> pc = "done"
    /\ pc = "done" => trace = Order /\ exc = ""
    /\ pc = "failed" =>
          /\ exit_code = 1
          /\ exc # ""
          /\ IsPrefix(trace, Order) /\ Len(trace) < Len(Order)
          /\ stdout = <<>>
          /\ client = NoClient => requests = <<>>
          /\ exc = "BotoCoreError" => client = NoClient /\ requests = <<>>
          /\ exc = "ClientError" => served = <<>>
    /\ pc # "failed" => exc = "" /\ exit_code # 1

\* C6: the above holds in every state, and a failed process takes no further
\* step.
C6_FailStop == []C6_State /\ [][pc = "failed" => UNCHANGED vars]_vars

C6_Witness ==
    /\ pc = "failed"
    /\ exc = "BotoCoreError"
    /\ trace = <<"import", "setenv">>

\* C7 as stated: standard output never has more than one line, and has
\* exactly one after a successful run.
C7_AtMostOneLine ==
    /\ Newlines(stdout) <= 1
    /\ pc = "done" => Newlines(stdout) = 1
    /\ pc = "failed" => stdout = <<>>

\* C7, amended: a successful run performs one print, whose output is str of
\* the text field followed by one newline: one line more than the text has
\* newline characters, hence exactly one line when it has none.  A failed
\* run writes nothing.
C7_OnePrint ==
    /\ Cardinality({i \in 1..Len(trace) : trace[i] = "print"}) <= 1
    /\ pc = "failed" => stdout = <<>>
    /\ \A t \in Texts :
          (Len(served) = 1 /\ Carries(served[1], t) /\ pc \in {"end", "done"}) =>
              /\ Len(stdout) = Len(PyStr(t)) + 1
              /\ SubSeq(stdout, 1, Len(stdout) - 1) = PyStr(t)
              /\ stdout[Len(stdout)] = "\n"
              /\ Newlines(stdout) = Newlines(PyStr(t)) + 1

C7_Witness ==
    /\ pc = "done"
    /\ served = <<MinimalResponse(PyString(<<"a", "\n">>))>>
    /\ Newlines(stdout) = 2

\* the output of one completed run per response, in order
RECURSIVE Outputs(_)
Outputs(rs) ==
    IF rs = <<>> THEN <<>>
    ELSE LET t == ExtractText(Head(rs)).val IN PyStr(t) \o <<"\n">> \o Outputs(Tail(rs))

\* C8: each run of the body makes its own request and prints the response to
\* that request: once a run has made its call the requests made equal the
\* runs started, the response held is the one returned to this run's call,
\* and the output of the runs is the output of their responses, in order.
C8_IndependentRuns ==
    /\ Len(requests) \in {runs - 1, runs}
    /\ pc \in {"in_converse", "print", "end", "done"} => Len(requests) = runs
    /\ Len(served) <= Len(requests)
    /\ pc \in {"print", "end", "done"} => Len(served) = runs /\ response = served[runs]
    /\ pc \in {"end", "done"} => stdout = Outputs(served)

C8_Witness ==
    /\ runs = 2
    /\ pc = "done"
    /\ Len(requests) = 2
    /\ served = <<MinimalResponse(PyString(<<"a">>)), MinimalResponse(PyInt(10))>>
    /\ stdout = <<"a", "\n", "1", "0", "\n">>

Rank(p) ==
    CASE p = "import" -> 0
      [] p = "setenv" -> 1
      [] p = "client" -> 2
      [] p = "define" -> 3
      [] p = "call" -> 4
      [] p = "in_converse" -> 5
      [] p = "print" -> 6
      [] p = "end" -> 7
      [] p \in {"done", "failed"} -> 8

Terminated == pc \in {"done", "failed"}

\* C9: every step moves forward through the script (no loop); a run that has
\* ended is in one of two final states, success (text printed, status 0) or
\* failure (unhandled exception, status 1); and every run ends unless it
\* stays blocked inside client.converse for ever.
C9_Terminates ==
    /\ [][Rank(pc') > Rank(pc)]_vars
    /\ [](Terminated =>
            \/ pc = "done" /\ exit_code = 0 /\ exc = "" /\ stdout # <<>>
            \/ pc = "failed" /\ exit_code = 1 /\ exc # "" /\ stdout = <<>>)
    /\ (<>Terminated \/ <>[](pc = "in_converse"))

C9_Witness ==
    /\ pc = "done"
    /\ exit_code = 0
    /\ trace = Order
    /\ stdout = <<"\n">>

\* C10: the first step sets AWS_BEARER_TOKEN_BEDROCK to the non-empty
\* literal whatever it held before; from then on, on every path, the
\* variable holds the literal and every other variable is as the process
\* found it.
C10_EnvFrame ==
    /\ TokenLiteral # ""
    /\ "setenv" \in {trace[i] : i \in 1..Len(trace)} =>
          /\ DOMAIN env = DOMAIN env0 \cup {TokenVar}
          /\ env[TokenVar] = "${api-key}"
          /\ \A n \in DOMAIN env0 \ {TokenVar} : env[n] = env0[n]
    /\ "setenv" \notin {trace[i] : i \in 1..Len(trace)} => env = env0

C10_Witness ==
    /\ pc = "failed"
    /\ exc = "TypeError"
    /\ TokenVar \in DOMAIN env0
    /\ env0[TokenVar] = "old-token"
    /\ OtherVar \in DOMAIN env
    /\ env[TokenVar] = TokenLiteral
====
